---- MODULE Spec2Model ----
(***************************************************************************)
(* ArchPulse static-analysis engine: scanner/parser output, dependency     *)
(* graph builder, cycle detection, layer classifier, hierarchy inference   *)
(* and the health report.                                                  *)
(*                                                                         *)
(* Paths.  A path string "src/db/m.ts" is the record                       *)
(*     [segs |-> <<"src","db","m">>, ext |-> <<".ts">>]                    *)
(* segs are the slash-separated segments (the last one without its         *)
(* extensions), ext the dot-suffixes of the last segment in order          *)
(* ("a.d.ts" has ext <<".d",".ts">>).  Segment names of the modelled       *)
(* projects contain no dot, so /\.[^.]+$/ always addresses the last        *)
(* element of ext.                                                         *)
(*                                                                         *)
(* Import sources.  "../services/s" is                                     *)
(*     [rel |-> TRUE, up |-> 1, segs |-> <<"services","s">>, ext |-> <<>>] *)
(* rel = the string starts with ".", up = the number of leading "..".      *)
(***************************************************************************)
EXTENDS Integers, Sequences, FiniteSets, TLC

\* ------------------------------------------------------------------ bounds
MaxImports == 3     \* import records parsed in one run (all files together)

DebounceTicks == 2  \* debounceMs, in ticks of the watcher's clock

MaxCalls == 3       \* onFileChange invocations in one watch session

MaxEmitted == 2     \* import records emitted by the language parsers in one run

\* ---------------------------------------------------------- generic helpers
Range(s) == {s[i] : i \in 1..Len(s)}

Front(s) == SubSeq(s, 1, Len(s) - 1)

Last(s) == s[Len(s)]

Max2(a, b) == IF a >= b THEN a ELSE b

Min2(a, b) == IF a <= b THEN a ELSE b

\* Array.prototype.indexOf: first index of x in s, 0 when absent
IndexOf(s, x) == IF x \in Range(s) THEN CHOOSE i \in 1..Len(s) : s[i] = x /\ \A j \in 1..(i-1) : s[j] # x ELSE 0

RECURSIVE SumSeq(_)
SumSeq(s) == IF s = <<>> THEN 0 ELSE s[1] + SumSeq(Tail(s))

removeAt(seq, j) == SubSeq(seq, 1, j - 1) \o SubSeq(seq, j + 1, Len(seq))

\* Math.round(n/d) for n >= 0, d > 0: floor(n/d + 1/2)
RoundDiv(n, d) == (2 * n + d) \div (2 * d)

\* ------------------------------------------------------------------- paths
P(segs, ext) == [segs |-> segs, ext |-> ext]

Src(rel, up, segs, ext) == [rel |-> rel, up |-> up, segs |-> segs, ext |-> ext]

FileU == P(<<"src", "controllers", "u">>, <<".ts">>)

FileS == P(<<"src", "services", "s">>, <<".ts">>)

FileM == P(<<"src", "db", "m">>, <<".ts">>)

\* the files a scan can deliver
Files == {FileU, FileS, FileM}

FileA == P(<<"src", "a">>, <<".ts">>)

\* files that share lookup keys: src/b.ts and src/b.js the key src/b once
\* the extension is stripped, src/b/index.ts the same key for its directory
FileBTs == P(<<"src", "b">>, <<".ts">>)

FileBJs == P(<<"src", "b">>, <<".js">>)

FileBIndex == P(<<"src", "b", "index">>, <<".ts">>)

SiblingFiles == {FileA, FileBTs, FileBJs, FileBIndex}

Imp(source, type, isExternal) == [source |-> source, type |-> type, isExternal |-> isExternal]

ImpU == Imp(Src(TRUE, 1, <<"controllers", "u">>, <<>>), "es6-named", FALSE)

ImpS == Imp(Src(TRUE, 1, <<"services", "s">>, <<>>), "es6-default", FALSE)

ImpM == Imp(Src(TRUE, 1, <<"db", "m">>, <<>>), "es6-default", FALSE)

ImpMDyn == Imp(Src(TRUE, 1, <<"db", "m">>, <<>>), "dynamic", FALSE)

\* require('src/db/m'): a bare specifier, which the parser flags external
ImpExt == Imp(Src(FALSE, 0, <<"src", "db", "m">>, <<>>), "commonjs", TRUE)

\* from './b', from './b.js', from './b/index'
ImpB == Imp(Src(TRUE, 0, <<"b">>, <<>>), "es6-named", FALSE)

ImpBJs == Imp(Src(TRUE, 0, <<"b">>, <<".js">>), "es6-named", FALSE)

ImpBIndex == Imp(Src(TRUE, 0, <<"b", "index">>, <<>>), "es6-default", FALSE)

\* the import statements in the text of each file, any of which the parser
\* can deliver any number of times
sourceImports(f) == CASE f = FileU -> {ImpS, ImpM, ImpExt} [] f = FileS -> {ImpM, ImpMDyn, ImpU} [] f = FileM -> {ImpU, ImpM, ImpS} [] f = FileA -> {ImpB, ImpBJs, ImpBIndex} [] OTHER -> {}

SiblingImportPool == UNION {sourceImports(f) : f \in SiblingFiles}

ImportPool == UNION {sourceImports(f) : f \in Files}

\* ------------------------------------------------------------------- state
VARIABLES parsedFiles, pc, config, analysis, report, layout, watcher, emitted

vars == <<parsedFiles, pc, config, analysis, report, layout, watcher, emitted>>

\* ------------------------------------------------------ parsers: ParsedFile
\* BaseParser.createEmptyResult: no import yet, no error
createEmptyResult(f) == [relativePath |-> f, imports |-> <<>>, errors |-> <<>>]

\* the catch block of parse that leaves the imports found before the throw
parseFailureKeepingImports(file) == [file EXCEPT !.errors = Append(@, "Parse error")]

\* TypeScriptParser.parse when parseAST or an extractor throws: result.imports
\* is assigned only after the try body ran through, so the result keeps the
\* empty import list and gets one error message
parseFailure(file) == [file EXCEPT !.imports = <<>>, !.errors = Append(@, "Parse error")]

\* ------------------------------------- parsers: isRelative and isExternal
\* A source string is the sequence of its tokens: "." and "/" one token
\* each, every run of other characters one token ("../b" is
\* <<".", ".", "/", "b">>, "github.com/x" is <<"github", ".", "com", "/", "x">>).
startsWith(s, prefix) == Len(s) >= Len(prefix) /\ SubSeq(s, 1, Len(prefix)) = prefix

includes(s, tok) == tok \in Range(s)

\* s.split(sep)[0]: the tokens before the first sep
RECURSIVE firstPart(_, _)
firstPart(s, sep) == IF s = <<>> \/ s[1] = sep THEN <<>> ELSE <<s[1]>> \o firstPart(Tail(s), sep)

\* BaseParser
isExternalImport(source) == IF startsWith(source, <<".">>) \/ startsWith(source, <<"/">>) THEN FALSE ELSE TRUE

isRelativeImport(source) == startsWith(source, <<".">>) \/ startsWith(source, <<"/">>)

\* BaseParser.createImport, used by the TypeScript/JavaScript parser and by
\* the Python parser for "import x"
createImport(source, type) == [source |-> source, type |-> type, isRelative |-> isRelativeImport(source), isExternal |-> isExternalImport(source)]

\* PythonParser.extractFromImports: "from <modulePath> import ..."
pythonFromImport(modulePath) == LET isRelative == startsWith(modulePath, <<".">>) IN [source |-> IF modulePath = <<>> THEN <<".">> ELSE modulePath, type |-> "python-from", isRelative |-> isRelative, isExternal |-> ~isRelative /\ ~includes(modulePath, ".")]

goDomains == {<<"github", ".", "com">>, <<"gitlab", ".", "com">>, <<"golang", ".", "org">>, <<"gopkg", ".", "in">>, <<"google", ".", "golang", ".", "org">>}

stdLibPkgs == {<<"fmt">>, <<"os">>, <<"io">>, <<"net">>, <<"http">>, <<"context">>, <<"sync">>, <<"time">>, <<"strings">>, <<"strconv">>, <<"encoding">>, <<"json">>, <<"log">>, <<"errors">>, <<"testing">>, <<"flag">>, <<"path">>, <<"filepath">>, <<"bufio">>, <<"bytes">>, <<"crypto">>, <<"database">>, <<"sql">>, <<"html">>, <<"image">>, <<"math">>, <<"reflect">>, <<"regexp">>, <<"runtime">>, <<"sort">>, <<"syscall">>, <<"unicode">>}

\* GoParser.isExternal
goIsExternal(importPath) == IF startsWith(importPath, <<".", "/">>) \/ startsWith(importPath, <<".", ".", "/">>) THEN FALSE ELSE IF includes(firstPart(importPath, "/"), ".") THEN TRUE ELSE IF \E d \in goDomains : startsWith(importPath, d) THEN TRUE ELSE firstPart(importPath, "/") \notin stdLibPkgs

\* GoParser.createImport
goCreateImport(importPath) == [source |-> importPath, type |-> "go-import", isRelative |-> startsWith(importPath, <<".", "/">>) \/ startsWith(importPath, <<".", ".", "/">>), isExternal |-> goIsExternal(importPath)]

\* isExternalJavaImport
isExternalJavaImport(importPath, packageName) == IF packageName = <<>> THEN TRUE ELSE IF \E p \in {<<"java">>, <<"javax">>, <<"sun">>, <<"com", ".", "sun">>} : startsWith(importPath, p) THEN TRUE ELSE firstPart(importPath, ".") # firstPart(packageName, ".")

\* JavaParser.parse, one import of a file of package packageName
javaImport(modulePath, packageName) == [source |-> modulePath, type |-> "java-import", isRelative |-> FALSE, isExternal |-> isExternalJavaImport(modulePath, packageName)]

\* ------------------------------------------------- graph.ts: path helpers
\* removeExtension: filePath.replace(/\.[^.]+$/, '')
removeExtension(p) == IF p.ext = <<>> THEN p ELSE [p EXCEPT !.ext = Front(p.ext)]

\* path.dirname of a root-relative path ("." for a file at the root)
dirname(p) == IF Len(p.segs) <= 1 THEN P(<<".">>, <<>>) ELSE P(Front(p.segs), <<>>)

\* String.prototype.toLowerCase on the segment names that occur in the model
toLowerCase(s) == CASE s = "API" -> "api" [] s = "Data" -> "data" [] OTHER -> s

\* path.basename(withoutExt).toLowerCase() === 'index'
isIndexFile(p) == toLowerCase(Last(p.segs)) = "index" /\ Len(p.ext) <= 1

entryNames == {"index", "main", "app", "server", "cli", "entry"}

isEntryPoint(p) == Len(p.ext) <= 1 /\ toLowerCase(Last(p.segs)) \in entryNames

\* getPackageName: '@scope/pkg/sub' -> '@scope/pkg', 'pkg/sub' -> 'pkg'
getPackageName(source) == IF source.segs[1] \in {"@scope"} THEN SubSeq(source.segs, 1, Min2(2, Len(source.segs))) ELSE <<source.segs[1]>>

\* The lookup table of buildDependencyGraph, as a function from keys to
\* relative paths; Map.set overwrites, the two guarded sets keep the first
\* owner of a key.
mapHas(m, k) == k \in DOMAIN m

mapGet(m, k) == m[k]

mapSet(m, k, v) == (k :> v) @@ m

mapSetIfAbsent(m, k, v) == IF mapHas(m, k) THEN m ELSE mapSet(m, k, v)

addFileKeys(m, rel) == LET m1 == mapSet(m, rel, rel) m2 == mapSetIfAbsent(m1, removeExtension(rel), rel) IN IF isIndexFile(rel) THEN mapSetIfAbsent(m2, dirname(rel), rel) ELSE m2

RECURSIVE buildFilePathMap(_, _)
buildFilePathMap(files, m) == IF files = <<>> THEN m ELSE buildFilePathMap(Tail(files), addFileKeys(m, files[1].relativePath))

NoPath == P(<<>>, <<>>)

\* path.join(dirname(fromFile), source) made relative to the project root;
\* fromFile is projectRoot + "/" + relativePath.  A source that climbs above
\* the root, or that names the root itself, gives a string no key equals.
candidatePath(source, fromRel) == IF ~source.rel THEN P(source.segs, source.ext) ELSE LET fromDir == Front(fromRel.segs) IN IF source.up > Len(fromDir) THEN NoPath ELSE P(SubSeq(fromDir, 1, Len(fromDir) - source.up) \o source.segs, source.ext)

extensions == <<<<".ts">>, <<".tsx">>, <<".js">>, <<".jsx">>, <<".py">>>>

indexSuffixes == <<<<>>, <<".ts">>, <<".js">>>>

\* the probes of resolveImport, in order
probes(resolved) == <<resolved, removeExtension(resolved)>> \o [i \in 1..Len(extensions) |-> P(resolved.segs, resolved.ext \o extensions[i])] \o (IF resolved.ext = <<>> THEN [i \in 1..Len(indexSuffixes) |-> P(Append(resolved.segs, "index"), indexSuffixes[i])] ELSE <<>>)

firstHit(m, ps) == LET hits == {i \in 1..Len(ps) : mapHas(m, ps[i])} IN IF hits = {} THEN NoPath ELSE mapGet(m, ps[CHOOSE i \in hits : \A j \in hits : i <= j])

\* resolveImport: the file of the first probe the table has, NoPath for null
resolveImport(source, fromRel, filePathMap) == LET resolved == candidatePath(source, fromRel) IN IF resolved = NoPath THEN NoPath ELSE firstHit(filePathMap, probes(resolved))

\* --------------------------------------------- graph.ts: buildDependencyGraph
newNode(nodePath) == [path |-> nodePath, inDegree |-> 0, outDegree |-> 0, coupling |-> [num |-> 0, den |-> 1], isEntryPoint |-> isEntryPoint(nodePath), layer |-> ""]

\* First pass.  nodes is a Map: setting a key that exists replaces the value
\* in place, so iteration order is the order of first insertion.
RECURSIVE createNodes(_, _)
createNodes(files, nodes) == IF files = <<>> THEN nodes ELSE LET n == newNode(files[1].relativePath) hit == {i \in 1..Len(nodes) : nodes[i].path = n.path} IN createNodes(Tail(files), IF hit = {} THEN Append(nodes, n) ELSE [nodes EXCEPT ![CHOOSE i \in hit : TRUE] = n])

\* addImport that books an import no probe matches as an external package
addImportUnresolvedAsExternal(acc, sourcePath, imp, filePathMap) == IF imp.isExternal \/ resolveImport(imp.source, sourcePath, filePathMap) = NoPath THEN [acc EXCEPT !.externalDependencies = @ \cup {getPackageName(imp.source)}] ELSE LET targetPath == resolveImport(imp.source, sourcePath, filePathMap) hit == {i \in 1..Len(acc.edges) : acc.edges[i].from = sourcePath /\ acc.edges[i].to = targetPath} IN IF hit # {} THEN LET i == CHOOSE i \in hit : TRUE IN [acc EXCEPT !.edges[i].weight = @ + 1, !.edges[i].importTypes = IF imp.type \in Range(@) THEN @ ELSE Append(@, imp.type)] ELSE [acc EXCEPT !.edges = Append(@, [from |-> sourcePath, to |-> targetPath, weight |-> 1, importTypes |-> <<imp.type>>])]

\* addImport without the isExternal test: every import is resolved
addImportIgnoringExternal(acc, sourcePath, imp, filePathMap) == LET targetPath == resolveImport(imp.source, sourcePath, filePathMap) hit == {i \in 1..Len(acc.edges) : acc.edges[i].from = sourcePath /\ acc.edges[i].to = targetPath} IN IF targetPath = NoPath THEN acc ELSE IF hit # {} THEN LET i == CHOOSE i \in hit : TRUE IN [acc EXCEPT !.edges[i].weight = @ + 1, !.edges[i].importTypes = IF imp.type \in Range(@) THEN @ ELSE Append(@, imp.type)] ELSE [acc EXCEPT !.edges = Append(@, [from |-> sourcePath, to |-> targetPath, weight |-> 1, importTypes |-> <<imp.type>>])]

\* Second pass, one import: acc = [edges, externalDependencies]
addImport(acc, sourcePath, imp, filePathMap) == IF imp.isExternal THEN [acc EXCEPT !.externalDependencies = @ \cup {getPackageName(imp.source)}] ELSE LET targetPath == resolveImport(imp.source, sourcePath, filePathMap) hit == {i \in 1..Len(acc.edges) : acc.edges[i].from = sourcePath /\ acc.edges[i].to = targetPath} IN IF targetPath = NoPath THEN acc ELSE IF hit # {} THEN LET i == CHOOSE i \in hit : TRUE IN [acc EXCEPT !.edges[i].weight = @ + 1, !.edges[i].importTypes = IF imp.type \in Range(@) THEN @ ELSE Append(@, imp.type)] ELSE [acc EXCEPT !.edges = Append(@, [from |-> sourcePath, to |-> targetPath, weight |-> 1, importTypes |-> <<imp.type>>])]

\* addImports that only unions the kind into an existing edge, without
\* incrementing its weight
RECURSIVE addImportsNoIncrement(_, _, _, _)
addImportsNoIncrement(acc, sourcePath, imports, filePathMap) == IF imports = <<>> THEN acc ELSE LET a == addImport(acc, sourcePath, imports[1], filePathMap) IN addImportsNoIncrement([a EXCEPT !.edges = [i \in 1..Len(a.edges) |-> [a.edges[i] EXCEPT !.weight = 1]]], sourcePath, Tail(imports), filePathMap)

RECURSIVE addImports(_, _, _, _)
addImports(acc, sourcePath, imports, filePathMap) == IF imports = <<>> THEN acc ELSE addImports(addImport(acc, sourcePath, imports[1], filePathMap), sourcePath, Tail(imports), filePathMap)

RECURSIVE createEdges(_, _, _)
createEdges(files, acc, filePathMap) == IF files = <<>> THEN acc ELSE createEdges(Tail(files), addImports(acc, files[1].relativePath, files[1].imports, filePathMap), filePathMap)

\* calculateDegrees counting edges instead of adding their weights
RECURSIVE calculateDegreesUnweighted(_, _)
calculateDegreesUnweighted(nodes, edges) == IF edges = <<>> THEN nodes ELSE LET e == edges[1] n1 == [i \in 1..Len(nodes) |-> IF nodes[i].path = e.from THEN [nodes[i] EXCEPT !.outDegree = @ + 1] ELSE nodes[i]] n2 == [i \in 1..Len(n1) |-> IF n1[i].path = e.to THEN [n1[i] EXCEPT !.inDegree = @ + 1] ELSE n1[i]] IN calculateDegreesUnweighted(n2, Tail(edges))

\* in-degree and out-degree: every edge adds its weight to both of its ends
RECURSIVE calculateDegrees(_, _)
calculateDegrees(nodes, edges) == IF edges = <<>> THEN nodes ELSE LET e == edges[1] n1 == [i \in 1..Len(nodes) |-> IF nodes[i].path = e.from THEN [nodes[i] EXCEPT !.outDegree = @ + e.weight] ELSE nodes[i]] n2 == [i \in 1..Len(n1) |-> IF n1[i].path = e.to THEN [n1[i] EXCEPT !.inDegree = @ + e.weight] ELSE n1[i]] IN calculateDegrees(n2, Tail(edges))

\* Math.max(...degrees, 1)
RECURSIVE maxDegree(_)
maxDegree(nodes) == IF nodes = <<>> THEN 1 ELSE Max2(nodes[1].inDegree + nodes[1].outDegree, maxDegree(Tail(nodes)))

\* coupling as the node's share of all degrees instead of the largest one
calculateCouplingOverTotal(nodes) == LET m == Max2(1, SumSeq([i \in 1..Len(nodes) |-> nodes[i].inDegree + nodes[i].outDegree])) IN [i \in 1..Len(nodes) |-> [nodes[i] EXCEPT !.coupling = [num |-> nodes[i].inDegree + nodes[i].outDegree, den |-> m]]]

\* coupling = (in + out) / maxDegree, kept as the fraction num/den
calculateCoupling(nodes) == LET m == maxDegree(nodes) IN [i \in 1..Len(nodes) |-> [nodes[i] EXCEPT !.coupling = [num |-> nodes[i].inDegree + nodes[i].outDegree, den |-> m]]]

\* ----------------------------------------- graph.ts: detectCircularDependencies
\* adjacency.get(node): the targets of the edges leaving node, in edge order;
\* an edge whose source is no node is skipped (?.push)
RECURSIVE adjacencyOf(_, _)
adjacencyOf(node, edges) == IF edges = <<>> THEN <<>> ELSE (IF edges[1].from = node THEN <<edges[1].to>> ELSE <<>>) \o adjacencyOf(node, Tail(edges))

\* cycleFrom without "cycle.push(neighbor)": the cycle is left open
cycleFromOpen(path, neighbor) == SubSeq(path, IndexOf(path, neighbor), Len(path))

\* the cycle recorded on meeting a neighbour that is on the recursion stack
cycleFrom(path, neighbor) == Append(SubSeq(path, IndexOf(path, neighbor), Len(path)), neighbor)

\* dfs(node) with its loop over the neighbours from index i on;
\* st = [visited, recursionStack, path, cycles].  dfs always returns false,
\* so the early "return true" never cuts the loop short.
RECURSIVE dfs(_, _, _), dfsNeighbors(_, _, _, _)
dfs(node, st, edges) == LET entered == [st EXCEPT !.visited = @ \cup {node}, !.recursionStack = @ \cup {node}, !.path = Append(@, node)] after == dfsNeighbors(node, 1, entered, edges) IN [after EXCEPT !.path = Front(@), !.recursionStack = @ \ {node}]

dfsNeighbors(node, i, st, edges) == LET adj == adjacencyOf(node, edges) IN IF i > Len(adj) THEN st ELSE LET neighbor == adj[i] IN IF neighbor \notin st.visited THEN dfsNeighbors(node, i + 1, dfs(neighbor, st, edges), edges) ELSE IF neighbor \in st.recursionStack THEN dfsNeighbors(node, i + 1, [st EXCEPT !.cycles = Append(@, cycleFrom(st.path, neighbor))], edges) ELSE dfsNeighbors(node, i + 1, st, edges)

\* the traversal started from the first node only
dfsAllFirstOnly(keys, st, edges) == IF keys = <<>> THEN st ELSE dfs(keys[1], st, edges)

\* the outer loop abandoned once a cycle has been recorded
RECURSIVE dfsAllUntilCycle(_, _, _)
dfsAllUntilCycle(keys, st, edges) == IF keys = <<>> \/ st.cycles # <<>> THEN st ELSE dfsAllUntilCycle(Tail(keys), IF keys[1] \in st.visited THEN st ELSE dfs(keys[1], st, edges), edges)

RECURSIVE dfsAll(_, _, _)
dfsAll(keys, st, edges) == IF keys = <<>> THEN st ELSE dfsAll(Tail(keys), IF keys[1] \in st.visited THEN st ELSE dfs(keys[1], st, edges), edges)

\* the traversal restarted from every node with a fresh visited set
RECURSIVE dfsPerStart(_, _)
dfsPerStart(keys, edges) == IF keys = <<>> THEN <<>> ELSE dfs(keys[1], [visited |-> {}, recursionStack |-> {}, path |-> <<>>, cycles |-> <<>>], edges).cycles \o dfsPerStart(Tail(keys), edges)

detectCircularDependenciesPerStart(nodes, edges) == dfsPerStart([i \in 1..Len(nodes) |-> nodes[i].path], edges)

detectCircularDependencies(nodes, edges) == dfsAll([i \in 1..Len(nodes) |-> nodes[i].path], [visited |-> {}, recursionStack |-> {}, path |-> <<>>, cycles |-> <<>>], edges).cycles

buildDependencyGraph(files) == LET nodes0 == createNodes(files, <<>>) filePathMap == buildFilePathMap(files, <<>>) acc == createEdges(files, [edges |-> <<>>, externalDependencies |-> {}], filePathMap) nodes == calculateCoupling(calculateDegrees(nodes0, acc.edges)) IN [nodes |-> nodes, edges |-> acc.edges, externalDependencies |-> acc.externalDependencies, circularDependencies |-> detectCircularDependencies(nodes, acc.edges)]

\* ------------------------------------------------------ layers.ts: the rules
Rule(words, layer, level) == [custom |-> FALSE, words |-> words, dirs |-> <<>>, layer |-> layer, level |-> level]

DEFAULT_LAYER_RULES == <<Rule({"ui", "views", "pages", "components", "frontend"}, "frontend", 0), Rule({"app"}, "frontend", 0), Rule({"api", "routes", "controllers", "handlers", "endpoints"}, "api", 1), Rule({"services", "business", "logic", "core", "domain"}, "services", 2), Rule({"db", "database", "models", "entities", "repositories", "data"}, "database", 3), Rule({"utils", "helpers", "lib", "common", "shared"}, "shared", 4), Rule({"cli"}, "cli", 0), Rule({"config"}, "config", 4), Rule({"types"}, "types", 4)>>

FallbackLevel == 99

\* the rule words w with s.startsWith(w), for a segment name s of the model
wordPrefixes(s) == IF s = "database" THEN {"database", "data"} ELSE IF s = "clients" THEN {"cli"} ELSE {s}

\* A user grouping rule {pattern: "<dirs>/**", label}: the glob becomes the
\* regex ^<dirs>/.* (case-insensitive), the label is lowercased; level 0
groupingToLayerRule(grouping) == [custom |-> TRUE, words |-> {}, dirs |-> grouping.dirs, layer |-> toLowerCase(grouping.label), level |-> 0]

\* rule.pattern.test(normalized).  A built-in pattern is /^(src\/)?(w1|w2|..)/:
\* some word is a prefix of the path, or of the path behind a leading "src/".
ruleMatches(rule, p) == IF rule.custom THEN Len(p.segs) > Len(rule.dirs) /\ \A i \in 1..Len(rule.dirs) : toLowerCase(rule.dirs[i]) = toLowerCase(p.segs[i]) ELSE (wordPrefixes(toLowerCase(p.segs[1])) \cap rule.words # {}) \/ (Len(p.segs) >= 2 /\ toLowerCase(p.segs[1]) = "src" /\ wordPrefixes(toLowerCase(p.segs[2])) \cap rule.words # {})

\* detectLayerForPath: first matching rule, else the first directory, else root
detectLayerForPath(p, rules) == LET hits == {i \in 1..Len(rules) : ruleMatches(rules[i], p)} IN IF hits # {} THEN LET r == rules[CHOOSE i \in hits : \A j \in hits : i <= j] IN [name |-> r.layer, level |-> r.level] ELSE IF Len(p.segs) >= 2 THEN [name |-> toLowerCase(p.segs[1]), level |-> FallbackLevel] ELSE [name |-> "root", level |-> FallbackLevel]

\* Array.prototype.sort with comparator a.k - b.k on a list of [k, v]:
\* ascending by k, stable (elements with equal k keep their order)
RECURSIVE insertByKey(_, _)
insertByKey(sorted, x) == IF sorted = <<>> THEN <<x>> ELSE IF Last(sorted).k <= x.k THEN Append(sorted, x) ELSE Append(insertByKey(Front(sorted), x), Last(sorted))

RECURSIVE sortByKey(_)
sortByKey(s) == IF s = <<>> THEN <<>> ELSE insertByKey(sortByKey(Front(s)), Last(s))

\* ------------------------------------------------- layers.ts: detectLayers
\* layerMap / layerLevels: one entry per layer name in order of first use,
\* the level is the one of the module that created the entry
\* assignLayers that creates the entry of a layer but never adds a further
\* module to an entry that exists
RECURSIVE assignLayersFirstOnly(_, _, _, _)
assignLayersFirstOnly(nodes, i, rules, layerMap) == IF i > Len(nodes) THEN layerMap ELSE LET layer == detectLayerForPath(nodes[i].path, rules) hit == {j \in 1..Len(layerMap) : layerMap[j].id = layer.name} IN assignLayersFirstOnly(nodes, i + 1, rules, IF hit = {} THEN Append(layerMap, [id |-> layer.name, modules |-> <<nodes[i].path>>, level |-> layer.level]) ELSE layerMap)

RECURSIVE assignLayers(_, _, _, _)
assignLayers(nodes, i, rules, layerMap) == IF i > Len(nodes) THEN layerMap ELSE LET layer == detectLayerForPath(nodes[i].path, rules) hit == {j \in 1..Len(layerMap) : layerMap[j].id = layer.name} IN assignLayers(nodes, i + 1, rules, IF hit = {} THEN Append(layerMap, [id |-> layer.name, modules |-> <<nodes[i].path>>, level |-> layer.level]) ELSE LET j == CHOOSE j \in hit : TRUE IN [layerMap EXCEPT ![j].modules = IF nodes[i].path \in Range(@) THEN @ ELSE Append(@, nodes[i].path)])

\* the rule list with the built-in rules ahead of the user rules
allRulesBuiltinsFirst(cfg) == DEFAULT_LAYER_RULES \o [i \in 1..Len(cfg.grouping) |-> groupingToLayerRule(cfg.grouping[i])]

allRules(cfg) == [i \in 1..Len(cfg.grouping) |-> groupingToLayerRule(cfg.grouping[i])] \o DEFAULT_LAYER_RULES

\* detectLayers without the sort by level: the layers in order of first use
detectLayersUnsorted(graph, cfg) == assignLayers(graph.nodes, 1, allRules(cfg), <<>>)

\* the layers, sorted by level (name and color of a layer are not modelled)
detectLayers(graph, cfg) == LET layerMap == assignLayers(graph.nodes, 1, allRules(cfg), <<>>) sorted == sortByKey([i \in 1..Len(layerMap) |-> [k |-> layerMap[i].level, v |-> layerMap[i]]]) IN [i \in 1..Len(sorted) |-> sorted[i].v]

\* node.layer = layer.name, the side effect of detectLayers on the graph
setNodeLayers(graph, cfg) == [graph EXCEPT !.nodes = [i \in 1..Len(graph.nodes) |-> [graph.nodes[i] EXCEPT !.layer = detectLayerForPath(graph.nodes[i].path, allRules(cfg)).name]]]

\* ------------------------------------------- layers.ts: inferLayerHierarchy
layerOfPath(graph, p) == LET hit == {i \in 1..Len(graph.nodes) : graph.nodes[i].path = p} IN IF hit = {} THEN "" ELSE graph.nodes[CHOOSE i \in hit : TRUE].layer

\* an edge counts when both ends have a (non-empty) layer and they differ
isCrossLayer(graph, e) == layerOfPath(graph, e.from) # "" /\ layerOfPath(graph, e.to) # "" /\ layerOfPath(graph, e.from) # layerOfPath(graph, e.to)

\* incomingCount.get(id) || 0: the weight of the cross-layer edges into id
\* whose source layer is one of the layers
RECURSIVE incomingCount(_, _, _, _)
incomingCount(layerId, ids, graph, edges) == IF edges = <<>> THEN 0 ELSE (IF isCrossLayer(graph, edges[1]) /\ layerOfPath(graph, edges[1].from) \in ids /\ layerOfPath(graph, edges[1].to) = layerId THEN edges[1].weight ELSE 0) + incomingCount(layerId, ids, graph, Tail(edges))

\* inferLayerHierarchy without the reassignment of the levels
inferLayerHierarchyKeepingLevels(layers, graph) == LET ids == {layers[i].id : i \in 1..Len(layers)} sorted == sortByKey([i \in 1..Len(layers) |-> [k |-> incomingCount(layers[i].id, ids, graph, graph.edges), v |-> layers[i]]]) IN [i \in 1..Len(sorted) |-> sorted[i].v]

inferLayerHierarchy(layers, graph) == LET ids == {layers[i].id : i \in 1..Len(layers)} sorted == sortByKey([i \in 1..Len(layers) |-> [k |-> incomingCount(layers[i].id, ids, graph, graph.edges), v |-> layers[i]]]) IN [i \in 1..Len(sorted) |-> [sorted[i].v EXCEPT !.level = i - 1]]

\* ------------------------------------------------- analyzers/index.ts: analyze
getHighCouplingModules(graph) == {graph.nodes[i].path : i \in {j \in 1..Len(graph.nodes) : 10 * graph.nodes[j].coupling.num > 7 * graph.nodes[j].coupling.den}}

getOrphanModules(graph) == {graph.nodes[i].path : i \in {j \in 1..Len(graph.nodes) : graph.nodes[j].inDegree = 0 /\ ~graph.nodes[j].isEntryPoint}}

getEntryPoints(graph) == {graph.nodes[i].path : i \in {j \in 1..Len(graph.nodes) : graph.nodes[j].isEntryPoint}}

\* averageCoupling is kept in hundredths: Math.round(avg * 100) / 100
calculateMetrics(graph) == LET n == Len(graph.nodes) total == SumSeq([i \in 1..n |-> graph.nodes[i].coupling.num]) IN [averageCoupling |-> IF n > 0 THEN RoundDiv(100 * total, graph.nodes[1].coupling.den * n) ELSE 0, highCouplingModules |-> getHighCouplingModules(graph), circularDependencyCount |-> Len(graph.circularDependencies), orphanModules |-> getOrphanModules(graph), entryPointsCount |-> Cardinality(getEntryPoints(graph))]

createEmptyAnalysis == [graph |-> [nodes |-> <<>>, edges |-> <<>>, externalDependencies |-> {}, circularDependencies |-> <<>>], layers |-> <<>>, filesAnalyzed |-> 0, totalDependencies |-> 0, metrics |-> [averageCoupling |-> 0, highCouplingModules |-> {}, circularDependencyCount |-> 0, orphanModules |-> {}, entryPointsCount |-> 0]]

\* analyze: the scan result is the list of parsed files; no file, no analysis
analyze(files, cfg) == IF Len(files) = 0 THEN createEmptyAnalysis ELSE LET graph0 == buildDependencyGraph(files) layers0 == detectLayers(graph0, cfg) graph == setNodeLayers(graph0, cfg) layers == inferLayerHierarchy(layers0, graph) IN [graph |-> graph, layers |-> layers, filesAnalyzed |-> Len(files), totalDependencies |-> Len(graph.edges), metrics |-> calculateMetrics(graph)]

\* ------------------------------------------------ dashboard: the health report
HUB_THRESHOLD == 5

\* layerOrder.get(mod): index of the last layer listing mod, -1 for undefined
layerOrder(layers, mod) == LET hit == {i \in 1..Len(layers) : mod \in Range(layers[i].modules)} IN IF hit = {} THEN -1 ELSE (CHOOSE i \in hit : \A j \in hit : j <= i) - 1

isViolation(layers, e) == layerOrder(layers, e.from) # -1 /\ layerOrder(layers, e.to) # -1 /\ layerOrder(layers, e.from) > layerOrder(layers, e.to)

countLayerViolations(a) == Cardinality({i \in 1..Len(a.graph.edges) : isViolation(a.layers, a.graph.edges[i])})

\* a penalty for the upper extreme only
instabilityPenaltyHighOnly(instability) == IF instability > 90 THEN 3 ELSE 0

\* the penalty for an instability (in hundredths) outside [0.1, 0.9]
instabilityPenalty(instability) == IF instability > 90 \/ instability < 10 THEN 3 ELSE 0

\* calculateOverallScore; coupling is the fraction num/den, instability in hundredths
calculateOverallScore(m, totalModules) == LET circularPenalty == Min2(30, m.circularDeps * 3) c == m.coupling couplingPenalty == (IF c.num > 5 * c.den THEN 5 ELSE 0) + (IF c.num > 10 * c.den THEN 10 ELSE 0) + (IF c.num > 20 * c.den THEN 5 ELSE 0) orphanPenalty == IF totalModules > 0 /\ m.orphans * 100 > 50 * totalModules THEN 15 ELSE IF totalModules > 0 /\ m.orphans * 100 > 30 * totalModules THEN 10 ELSE IF totalModules > 0 /\ m.orphans * 100 > 10 * totalModules THEN 5 ELSE 0 violationPenalty == Min2(15, m.layerViolations) degreePenalty == (IF m.maxInDegree > 50 THEN 5 ELSE 0) + (IF m.maxOutDegree > 50 THEN 5 ELSE 0) hubPenalty == IF m.hubModules > 3 THEN 5 ELSE IF m.hubModules > 0 THEN 2 ELSE 0 score == 100 - circularPenalty - couplingPenalty - orphanPenalty - violationPenalty - degreePenalty - hubPenalty - instabilityPenalty(m.instability) IN Max2(0, Min2(100, score))

RECURSIVE maxOf(_)
maxOf(s) == IF s = <<>> THEN 0 ELSE Max2(s[1], maxOf(Tail(s)))

calculateHealthMetrics(a) == LET ns == a.graph.nodes n == Len(ns) totalOutDegree == SumSeq([i \in 1..n |-> ns[i].outDegree]) totalInDegree == SumSeq([i \in 1..n |-> ns[i].inDegree]) totalCoupling == totalInDegree + totalOutDegree m == [coupling |-> IF n > 0 THEN [num |-> totalOutDegree, den |-> n] ELSE [num |-> 0, den |-> 1], circularDeps |-> Len(a.graph.circularDependencies), orphans |-> Cardinality({i \in 1..n : ns[i].inDegree = 0 /\ ns[i].outDegree = 0}), layerViolations |-> countLayerViolations(a), maxInDegree |-> maxOf([i \in 1..n |-> ns[i].inDegree]), maxOutDegree |-> maxOf([i \in 1..n |-> ns[i].outDegree]), afferentCoupling |-> totalInDegree, efferentCoupling |-> totalOutDegree, instability |-> IF totalCoupling > 0 THEN RoundDiv(100 * totalOutDegree, totalCoupling) ELSE 0, hubModules |-> Cardinality({i \in 1..n : ns[i].inDegree >= HUB_THRESHOLD /\ ns[i].outDegree >= HUB_THRESHOLD})] IN [m EXCEPT !.coupling = m.coupling] @@ [score |-> calculateOverallScore(m, n)]

scoreToGrade(score) == IF score >= 90 THEN "A" ELSE IF score >= 80 THEN "B" ELSE IF score >= 70 THEN "C" ELSE IF score >= 60 THEN "D" ELSE "F"

\* getStatus with the warning band starting at the D grade
getStatusWarningFrom60(score) == IF score >= 70 THEN "healthy" ELSE IF score >= 60 THEN "warning" ELSE "critical"

getStatus(score) == IF score >= 70 THEN "healthy" ELSE IF score >= 50 THEN "warning" ELSE "critical"

\* generateHealthReport (the recommendation texts are not modelled)
generateHealthReport(a) == LET metrics == calculateHealthMetrics(a) IN [metrics |-> metrics, grade |-> scoreToGrade(metrics.score), status |-> getStatus(metrics.score)]

\* --------------------------------------------- generators/layout.ts: layout
DEFAULT_LAYOUT_CONFIG == [maxNodesPerRow |-> 6]

\* node ids: `node-${index}` and `layer-${name}`
NodeId(index) == [prefix |-> "node", index |-> index, name |-> ""]

LayerId(name) == [prefix |-> "layer", index |-> -1, name |-> name]

NoId == [prefix |-> "", index |-> -1, name |-> ""]

\* inDegree + outDegree of the graph node of a module, 0 when there is none
moduleScore(graph, modulePath) == LET hit == {i \in 1..Len(graph.nodes) : graph.nodes[i].path = modulePath} IN IF hit = {} THEN 0 ELSE LET n == graph.nodes[CHOOSE i \in hit : TRUE] IN n.inDegree + n.outDegree

\* [...layer.modules].sort((a, b) => scoreB - scoreA): stable, descending
sortedModules(layer, a) == LET s == sortByKey([i \in 1..Len(layer.modules) |-> [k |-> 0 - moduleScore(a.graph, layer.modules[i]), v |-> layer.modules[i]]]) IN [i \in 1..Len(s) |-> s[i].v]

\* the module nodes of one layer, placed row by row; nodeIndex restarts at 0
layoutLayer(layer, cfg, a) == LET moduleCount == Len(layer.modules) nodesPerRow == Min2(cfg.maxNodesPerRow, moduleCount) sorted == sortedModules(layer, a) IN IF moduleCount = 0 THEN <<>> ELSE [i \in 1..moduleCount |-> [id |-> NodeId(i - 1), isGroup |-> FALSE, layer |-> layer.id, path |-> sorted[i], parentId |-> LayerId(layer.id), row |-> (i - 1) \div nodesPerRow, col |-> (i - 1) % nodesPerRow]]

\* the layer group node followed by the module nodes of the layer
RECURSIVE layoutNodes(_, _, _)
layoutNodes(ls, cfg, a) == IF ls = <<>> THEN <<>> ELSE <<[id |-> LayerId(ls[1].id), isGroup |-> TRUE, layer |-> ls[1].id, path |-> NoPath, parentId |-> NoId, row |-> -1, col |-> -1]>> \o layoutLayer(ls[1], cfg, a) \o layoutNodes(Tail(ls), cfg, a)

\* nodePositions.get(path): the module node stored last under the path
nodePositions(nodes, p) == LET hit == {i \in 1..Len(nodes) : ~nodes[i].isGroup /\ nodes[i].path = p} IN IF hit = {} THEN NoId ELSE nodes[CHOOSE i \in hit : \A j \in hit : j <= i].id

\* one LayoutEdge per graph edge whose two ends have a module node
RECURSIVE layoutEdges(_, _, _)
layoutEdges(es, nodes, out) == IF es = <<>> THEN out ELSE LET sourceId == nodePositions(nodes, es[1].from) targetId == nodePositions(nodes, es[1].to) IN layoutEdges(Tail(es), nodes, IF sourceId # NoId /\ targetId # NoId THEN Append(out, [id |-> Len(out), sourceId |-> sourceId, targetId |-> targetId, from |-> es[1].from, to |-> es[1].to]) ELSE out)

\* generateLayout (sizes, positions in pixels and colours are not modelled)
generateLayout(a) == LET nodes == layoutNodes(a.layers, DEFAULT_LAYOUT_CONFIG, a) IN [nodes |-> nodes, edges |-> layoutEdges(a.graph.edges, nodes, <<>>)]

NoLayout == [nodes |-> <<>>, edges |-> <<>>]

\* ---------------------------------------------------- cli/watcher.ts: watcher
FileB == P(<<"src", "b">>, <<".tsx">>)

FileATest == P(<<"src", "a">>, <<".test", ".ts">>)

FileReadme == P(<<"README">>, <<".md">>)

FileDep == P(<<"node_modules", "x">>, <<".js">>)

\* the filenames fs.watch reports; NoPath stands for a null filename
EventFiles == {FileA, FileB, FileATest, FileReadme, FileDep, NoPath}

\* the extensions of the registered parsers (the TypeScript/JavaScript ones)
supportedExtensions == {".ts", ".tsx", ".js", ".jsx", ".mjs", ".cjs", ".mts", ".cts"}

\* config.ignore of the default configuration, as matchesPattern reads it:
\* "dir/**" is anchored at the start, "**/*.test.ts" needs a directory
ignored(p) == \/ Len(p.segs) >= 2 /\ p.segs[1] \in {"node_modules", "dist", "build", ".git", "coverage"}
              \/ Len(p.segs) >= 2 /\ Len(p.ext) >= 2 /\ p.ext[Len(p.ext) - 1] \in {".test", ".spec"} /\ Last(p.ext) \in {".ts", ".js"}
              \/ \E i \in 2..(Len(p.segs) - 1) : p.segs[i] \in {"__tests__", "__mocks__"}

\* path.extname is the last dot-suffix of the file name
shouldWatch(p) == p.ext # <<>> /\ Last(p.ext) \in supportedExtensions /\ ~ignored(p)

\* the state of createWatcher.  debounceTimer is the time left on the armed
\* timer, -1 when no timer is armed.  calls, changed and quiet observe the
\* run: the onFileChange invocations, the watched files reported since the
\* last invocation or stop, the time since the last watched event (up to
\* DebounceTicks).  inProgress counts the onFileChange calls that are awaited,
\* dropped holds the files that were pending when stop() cleared the set
createWatcher == [isRunning |-> FALSE, exited |-> FALSE, pendingFiles |-> {}, debounceTimer |-> -1, calls |-> <<>>, changed |-> {}, quiet |-> 0, inProgress |-> 0, dropped |-> {}]

\* a second event that leaves the armed timer running
armTimerKeepingOld(w) == IF w.debounceTimer >= 0 THEN w ELSE [w EXCEPT !.debounceTimer = DebounceTicks]

\* clearTimeout(state.debounceTimer); state.debounceTimer = setTimeout(.., debounceMs)
armTimer(w) == [w EXCEPT !.debounceTimer = DebounceTicks]

handleFileChange(w, filename) == IF filename = NoPath \/ ~shouldWatch(filename) THEN w ELSE armTimer([w EXCEPT !.pendingFiles = @ \cup {filename}, !.changed = @ \cup {filename}, !.quiet = 0])

\* the timer callback: take the pending files, clear the set, call onFileChange
debounceCallback(w) == LET changedFiles == w.pendingFiles cleared == [w EXCEPT !.pendingFiles = {}, !.debounceTimer = -1] IN IF Cardinality(changedFiles) > 0 THEN [cleared EXCEPT !.calls = Append(@, [files |-> changedFiles, changed |-> w.changed, quiet |-> w.quiet]), !.changed = {}, !.inProgress = @ + 1] ELSE cleared

\* the promise of onFileChange settles and the timer callback ends
onFileChangeReturns(w) == [w EXCEPT !.inProgress = @ - 1]

\* start(): nothing when running or when fs.watch throws (ok false)
start(w, ok) == IF w.isRunning THEN w ELSE IF ok THEN [w EXCEPT !.isRunning = TRUE] ELSE w

\* stop() without clearTimeout and without pendingFiles.clear()
stopKeepingTimer(w) == IF ~w.isRunning THEN w ELSE [w EXCEPT !.isRunning = FALSE, !.changed = {}]

stop(w) == IF ~w.isRunning THEN w ELSE [w EXCEPT !.debounceTimer = -1, !.isRunning = FALSE, !.pendingFiles = {}, !.changed = {}, !.dropped = @ \cup w.pendingFiles]

\* ------------------------------------------------------------ configuration
DEFAULT_CONFIG == [grouping |-> <<>>]

\* grouping: [{pattern: "src/db/**", label: "API"}]
ConfigDbAsApi == [grouping |-> <<[dirs |-> <<"src", "db">>, label |-> "API"]>>]

Configs == {DEFAULT_CONFIG, ConfigDbAsApi}

\* two grouping rules that both match src/db/m.ts, in either order
ConfigTwoRules == [grouping |-> <<[dirs |-> <<"src", "db">>, label |-> "Data"], [dirs |-> <<"src">>, label |-> "API"]>>]

ConfigTwoRulesSwapped == [grouping |-> <<[dirs |-> <<"src">>, label |-> "API"], [dirs |-> <<"src", "db">>, label |-> "Data"]>>]

\* a grouping rule with the empty label, which the loader accepts
ConfigDbUnlabelled == [grouping |-> <<[dirs |-> <<"src", "db">>, label |-> ""]>>]

GroupingConfigs == {ConfigTwoRules, ConfigTwoRulesSwapped, ConfigDbUnlabelled}

\* ------------------------------------------------------------------ actions
importCount(files) == SumSeq([i \in 1..Len(files) |-> Len(files[i].imports)])

scannedPaths(files) == {files[i].relativePath : i \in 1..Len(files)}

Init == /\ parsedFiles = <<>>
        /\ pc = "scan"
        /\ config = DEFAULT_CONFIG
        /\ analysis = createEmptyAnalysis
        /\ report = generateHealthReport(createEmptyAnalysis)
        /\ layout = NoLayout
        /\ watcher = createWatcher
        /\ emitted = <<>>

\* the scanner delivers the next file and parseFiles appends its ParsedFile
ScanFile(f) == /\ pc = "scan"
               /\ f \notin scannedPaths(parsedFiles)
               /\ parsedFiles' = Append(parsedFiles, createEmptyResult(f))
               /\ UNCHANGED <<pc, config, analysis, report, layout, watcher, emitted>>

\* the parser finds the next import statement of the file being parsed
ParseImport(imp) == /\ pc = "scan"
                    /\ parsedFiles # <<>>
                    /\ Last(parsedFiles).errors = <<>>
                    /\ importCount(parsedFiles) < MaxImports
                    /\ imp \in sourceImports(Last(parsedFiles).relativePath)
                    /\ parsedFiles' = [parsedFiles EXCEPT ![Len(parsedFiles)].imports = Append(@, imp)]
                    /\ UNCHANGED <<pc, config, analysis, report, layout, watcher, emitted>>

\* the parser throws on the file being parsed
ParseFails == /\ pc = "scan"
              /\ parsedFiles # <<>>
              /\ Last(parsedFiles).errors = <<>>
              /\ parsedFiles' = [parsedFiles EXCEPT ![Len(parsedFiles)] = parseFailure(@)]
              /\ UNCHANGED <<pc, config, analysis, report, layout, watcher, emitted>>

\* analyze(): load the configuration, build the graph, classify, infer levels
Analyze(cfg) == /\ pc = "scan"
                /\ pc' = "analyzed"
                /\ config' = cfg
                /\ analysis' = analyze(parsedFiles, cfg)
                /\ UNCHANGED <<parsedFiles, report, layout, watcher, emitted>>

GenerateHealthReport == /\ pc = "analyzed"
                        /\ pc' = "reported"
                        /\ report' = generateHealthReport(analysis)
                        /\ UNCHANGED <<parsedFiles, config, analysis, layout, watcher, emitted>>

\* the generate command lays the analysis out for the diagram writers
GenerateLayout == /\ pc = "analyzed"
                  /\ pc' = "drawn"
                  /\ layout' = generateLayout(analysis)
                  /\ UNCHANGED <<parsedFiles, config, analysis, report, watcher, emitted>>

Next == \/ \E f \in Files : ScanFile(f)
        \/ \E imp \in ImportPool : ParseImport(imp)
        \/ ParseFails
        \/ \E cfg \in Configs : Analyze(cfg)
        \/ GenerateHealthReport

Spec == Init /\ [][Next]_vars

\* the generate command: scan, parse, analyze, lay out
NextLayout == \/ \E f \in Files : ScanFile(f)
              \/ \E imp \in ImportPool : ParseImport(imp)
              \/ ParseFails
              \/ \E cfg \in Configs : Analyze(cfg)
              \/ GenerateLayout

SpecLayout == Init /\ [][NextLayout]_vars

\* ------------------------------------------- health report of large analyses
ModuleNames == <<"module0", "module1", "module2", "module3", "module4", "module5", "module6", "module7", "module8", "module9", "module10", "module11", "module12">>

modulePath(i) == P(<<"src", ModuleNames[i]>>, <<".ts">>)

\* An analysis of n modules: the first o are isolated, the others form the
\* chain module(o) -> module(o+1) -> ... whose edges all have weight w; c
\* cycles are on record; with split the head of the chain is alone in the
\* lower of two layers.
chainAnalysis(n, c, o, w, split) == LET nodes0 == [i \in 1..n |-> [path |-> modulePath(i), inDegree |-> 0, outDegree |-> 0, coupling |-> [num |-> 0, den |-> 1], isEntryPoint |-> i = 1, layer |-> IF split /\ i = o + 1 THEN "layer1" ELSE "layer0"]]
                                        edges == [i \in 1..Max2(0, n - o - 1) |-> [from |-> modulePath(o + i), to |-> modulePath(o + i + 1), weight |-> w, importTypes |-> <<"es6-named">>]]
                                        nodes == calculateCoupling(calculateDegrees(nodes0, edges))
                                        graph0 == [nodes |-> nodes, edges |-> edges, externalDependencies |-> {}, circularDependencies |-> [i \in 1..c |-> <<modulePath(1), modulePath(2), modulePath(1)>>]]
                                        all == [i \in 1..n |-> modulePath(i)]
                                        layers0 == IF split /\ o < n THEN <<[id |-> "layer0", level |-> 0, modules |-> removeAt(all, o + 1)], [id |-> "layer1", level |-> 1, modules |-> <<modulePath(o + 1)>>]>> ELSE <<[id |-> "layer0", level |-> 0, modules |-> all]>>
                                    IN [graph |-> graph0, layers |-> layers0, filesAnalyzed |-> n, totalDependencies |-> Len(edges), metrics |-> calculateMetrics(graph0)]

ScoreInputs == {chainAnalysis(x[1], x[2], x[3], x[4], x[5]) : x \in {y \in {0, 2, 5, 13} \X {0, 1, 4, 7, 10, 12} \X {0, 1, 3, 7} \X {1, 6, 30, 60} \X BOOLEAN : y[3] <= y[1]}}

InitScore == /\ parsedFiles = <<>>
             /\ pc = "analyzed"
             /\ config = DEFAULT_CONFIG
             /\ analysis \in ScoreInputs
             /\ report = generateHealthReport(createEmptyAnalysis)
             /\ layout = NoLayout
             /\ watcher = createWatcher
             /\ emitted = <<>>

\* generateHealthReport applied to each of the analyses
SpecScore == InitScore /\ [][GenerateHealthReport]_vars

\* the analysis of a project whose files share lookup keys
NextSiblings == \/ \E f \in SiblingFiles : ScanFile(f)
                \/ \E imp \in SiblingImportPool : ParseImport(imp)
                \/ Analyze(DEFAULT_CONFIG)

SpecSiblings == Init /\ [][NextSiblings]_vars

\* the analysis of a project whose configuration has grouping rules
NextGrouping == \/ \E f \in Files : ScanFile(f)
                \/ \E imp \in ImportPool : ParseImport(imp)
                \/ \E cfg \in GroupingConfigs : Analyze(cfg)

SpecGrouping == Init /\ [][NextGrouping]_vars

\* ------------------------------------------------ the language parsers
\* the strings each parser's pattern can capture from a source text:
\* any string literal (TypeScript/JavaScript, Go), [^#\n]+ (Python import),
\* \.{0,3}[\w.]* (Python from), [a-zA-Z_][\w.]* (Java)
LiteralSources == {<<".", "/", "b">>, <<".", ".", "/", "b">>, <<"/", "srv", "/", "lib">>, <<".", "hidden", "/", "x">>, <<"fmt">>, <<"github", ".", "com", "/", "x">>, <<"myapp", "/", "pkg">>}

PythonModulePaths == {<<>>, <<".">>, <<".", "models">>, <<".", ".", "pkg">>, <<"os", ".", "path">>, <<"requests">>}

JavaModulePaths == {<<"java", ".", "util">>, <<"com", ".", "example", ".", "A">>, <<"org", ".", "junit">>}

parserOutputs == {createImport(src, "es6-named") : src \in LiteralSources} \cup {goCreateImport(src) : src \in LiteralSources} \cup {createImport(src, "python-import") : src \in PythonModulePaths \ {<<>>}} \cup {pythonFromImport(src) : src \in PythonModulePaths} \cup {javaImport(src, <<"com", ".", "example">>) : src \in JavaModulePaths}

\* a parser emits the import record of the next import statement of its file
ParserEmits(imp) == /\ Len(emitted) < MaxEmitted
                    /\ emitted' = Append(emitted, imp)
                    /\ UNCHANGED <<parsedFiles, pc, config, analysis, report, layout, watcher>>

SpecParsers == Init /\ [][\E imp \in parserOutputs : ParserEmits(imp)]_vars

\* ------------------------------------------------------- watch mode actions
pipeline == <<parsedFiles, pc, config, analysis, report, layout, emitted>>

\* runWatchMode: watcher.start() after the initial generation
Start == /\ ~watcher.isRunning /\ ~watcher.exited
         /\ watcher' = [watcher EXCEPT !.isRunning = TRUE]
         /\ UNCHANGED pipeline

\* fs.watch reports a change
HandleFileChange(filename) == /\ watcher.isRunning
                              /\ Len(watcher.calls) < MaxCalls
                              /\ watcher' = handleFileChange(watcher, filename)
                              /\ UNCHANGED pipeline

\* one tick of time passes; an armed timer that is due may still be waiting
\* for the event loop
Tick == /\ ~watcher.exited
        /\ watcher' = [watcher EXCEPT !.debounceTimer = IF @ > 0 THEN @ - 1 ELSE @, !.quiet = Min2(@ + 1, DebounceTicks)]
        /\ UNCHANGED pipeline

\* the armed timer is due and its callback runs
TimerFires == /\ ~watcher.exited
              /\ watcher.debounceTimer = 0
              /\ watcher' = debounceCallback(watcher)
              /\ UNCHANGED pipeline

\* SIGINT or SIGTERM: watcher.stop() and process.exit(0)
Stop == /\ watcher.isRunning
        /\ watcher' = [stop(watcher) EXCEPT !.exited = TRUE]
        /\ UNCHANGED pipeline

\* the awaited onFileChange call (one regeneration) completes
OnFileChangeReturns == /\ ~watcher.exited
                       /\ watcher.inProgress > 0
                       /\ watcher' = onFileChangeReturns(watcher)
                       /\ UNCHANGED pipeline

NextWatch == \/ Start
             \/ \E filename \in EventFiles : HandleFileChange(filename)
             \/ Tick
             \/ TimerFires
             \/ OnFileChangeReturns
             \/ Stop

SpecWatch == Init /\ [][NextWatch]_vars

\* a caller of createWatcher invokes start() and stop() at any time
StartCall(ok) == /\ watcher' = start(watcher, ok)
                 /\ UNCHANGED pipeline

StopCall == /\ watcher' = stop(watcher)
            /\ UNCHANGED pipeline

NextWatchApi == \/ \E ok \in BOOLEAN : StartCall(ok)
                \/ StopCall
                \/ \E filename \in EventFiles : HandleFileChange(filename)
                \/ Tick
                \/ TimerFires
                \/ OnFileChangeReturns

SpecWatchApi == Init /\ [][NextWatchApi]_vars

\* ================================================================== claims
Analyzed == pc # "scan"

graph == analysis.graph

nodeKeys == {graph.nodes[i].path : i \in 1..Len(graph.nodes)}

edgeSet == Range(graph.edges)

\* the import records of the parsed file with relative path p
importsOf(p) == LET hit == {i \in 1..Len(parsedFiles) : parsedFiles[i].relativePath = p} IN IF hit = {} THEN <<>> ELSE parsedFiles[CHOOSE i \in hit : TRUE].imports

\* for every import record of every parsed file, the path it resolves to:
\* NoPath for an external import and for a miss
resolutionTable == LET m == buildFilePathMap(parsedFiles, <<>>) IN [p \in scannedPaths(parsedFiles) |-> LET imps == importsOf(p) IN [j \in 1..Len(imps) |-> IF imps[j].isExternal THEN NoPath ELSE resolveImport(imps[j].source, p, m)]]

\* the positions of the non-external imports of file from that resolve to file to
resolvingImportsIn(tab, from, to) == IF from \in DOMAIN tab THEN {i \in DOMAIN tab[from] : tab[from][i] = to} ELSE {}

resolvingImports(from, to) == resolvingImportsIn(resolutionTable, from, to)

externalImports == {parsedFiles[i].imports[j] : <<i, j>> \in {x \in (1..Len(parsedFiles)) \X (1..MaxImports + 1) : x[2] <= Len(parsedFiles[x[1]].imports) /\ parsedFiles[x[1]].imports[x[2]].isExternal}}

\* C1: after buildDependencyGraph both ends of every edge are keys of the
\* nodes map, every edge comes from a non-external import of its source file
\* that resolves to its target, and the external imports contribute exactly
\* their package names to externalDependencies.
C1_EdgesBetweenNodesNoExternal == Analyzed => /\ LET tab == resolutionTable IN \A e \in edgeSet : e.from \in nodeKeys /\ e.to \in nodeKeys /\ resolvingImportsIn(tab, e.from, e.to) # {}
                                              /\ graph.externalDependencies = {getPackageName(imp.source) : imp \in externalImports}

\* an external import whose source names a file of the project, next to an edge
C1_Witness == Analyzed /\ edgeSet # {} /\ ImpExt \in externalImports /\ FileM \in nodeKeys /\ graph.externalDependencies = {<<"src">>}

weightOut(p) == SumSeq([i \in 1..Len(graph.edges) |-> IF graph.edges[i].from = p THEN graph.edges[i].weight ELSE 0])

weightIn(p) == SumSeq([i \in 1..Len(graph.edges) |-> IF graph.edges[i].to = p THEN graph.edges[i].weight ELSE 0])

\* C2: for every node, outDegree is the total weight of the edges leaving it
\* and inDegree the total weight of the edges entering it; a self-import
\* edge counts in both.
C2_DegreesAreWeightSums == Analyzed => \A i \in 1..Len(graph.nodes) : graph.nodes[i].outDegree = weightOut(graph.nodes[i].path) /\ graph.nodes[i].inDegree = weightIn(graph.nodes[i].path)

\* a self-import of weight 2 next to another edge
C2_Witness == Analyzed /\ (\E e \in edgeSet : e.from = e.to /\ e.weight = 2) /\ (\E e \in edgeSet : e.from # e.to)

\* C3: at most one edge per ordered (source, target) pair; its weight is at
\* least 1 and is the number of non-external imports of the source that
\* resolve to the target; importTypes lists exactly the kinds of those
\* imports, each once.
C3_EdgesCollapseParallelImports == Analyzed => LET tab == resolutionTable IN
                                               /\ \A i, j \in 1..Len(graph.edges) : (graph.edges[i].from = graph.edges[j].from /\ graph.edges[i].to = graph.edges[j].to) => i = j
                                               /\ \A e \in edgeSet : /\ e.weight >= 1
                                                                     /\ e.weight = Cardinality(resolvingImportsIn(tab, e.from, e.to))
                                                                     /\ Range(e.importTypes) = {importsOf(e.from)[k].type : k \in resolvingImportsIn(tab, e.from, e.to)}
                                                                     /\ Len(e.importTypes) = Cardinality(Range(e.importTypes))
                                               /\ \A f \in nodeKeys, t \in nodeKeys : resolvingImportsIn(tab, f, t) # {} => \E e \in edgeSet : e.from = f /\ e.to = t

\* one default import plus one dynamic import of the same file: one edge,
\* weight 2, kinds {es6-default, dynamic}
C3_Witness == Analyzed /\ \E e \in edgeSet : e.weight = 2 /\ e.importTypes = <<"es6-default", "dynamic">>

cycles == graph.circularDependencies

hasEdge(a, b) == \E e \in edgeSet : e.from = a /\ e.to = b

isClosedWalk(c) == c[1] = c[Len(c)] /\ \A i \in 1..(Len(c) - 1) : hasEdge(c[i], c[i + 1])

\* C4 as stated: every reported cycle [v0, ..., vk] has v0 = vk, k >= 2 and
\* an edge from each v_i to v_{i+1}.
C4_CyclesHaveAtLeastTwoEdges == Analyzed => \A i \in 1..Len(cycles) : Len(cycles[i]) - 1 >= 2 /\ isClosedWalk(cycles[i])

\* C4 (amended): every reported cycle [v0, ..., vk] has v0 = vk, k >= 1 and
\* an edge from each v_i to v_{i+1}; k = 1 is the cycle [v, v] of a module
\* that imports itself, every cycle through two or more modules has k >= 2.
C4_CyclesAreClosedWalks == Analyzed => \A i \in 1..Len(cycles) : /\ Len(cycles[i]) - 1 >= 1
                                                                 /\ isClosedWalk(cycles[i])
                                                                 /\ Len(cycles[i]) - 1 = 1 => hasEdge(cycles[i][1], cycles[i][1])
                                                                 /\ Cardinality(Range(cycles[i])) >= 2 => Len(cycles[i]) - 1 >= 2

\* a self-import cycle [v, v] reported next to a cycle through two modules
C4_Witness == Analyzed /\ (\E i \in 1..Len(cycles) : Len(cycles[i]) = 2) /\ (\E i \in 1..Len(cycles) : Len(cycles[i]) = 3)

successors(S) == {e.to : e \in {x \in edgeSet : x.from \in S}}

RECURSIVE closure(_)
closure(S) == IF successors(S) \subseteq S THEN S ELSE closure(S \cup successors(S))

\* some module reaches itself along one or more edges
hasDirectedCycle == \E n \in nodeKeys : n \in closure(successors({n}))

\* C5: circularDependencies is non-empty exactly when the edges contain a
\* directed cycle (direct, transitive or a self-import), for every order of
\* the files and of their imports.
C5_CyclesReportedIffCyclic == Analyzed => (cycles # <<>> <=> hasDirectedCycle)

\* a cycle between two files that the search enters from a later start: the
\* file scanned first is not on it
C5_Witness == Analyzed /\ hasDirectedCycle /\ \E i \in 1..Len(cycles) : Len(cycles[i]) = 3 /\ graph.nodes[1].path \notin Range(cycles[i])

layers == analysis.layers

layersListing(p) == {i \in 1..Len(layers) : p \in Range(layers[i].modules)}

\* C6: after detectLayers and inferLayerHierarchy the layers partition the
\* nodes: every node path is in the modules of exactly one layer, once; no
\* layer lists a path that is not a node; each node's layer field names the
\* layer that lists it.
C6_LayersPartitionNodes == Analyzed => /\ \A i \in 1..Len(graph.nodes) : Cardinality(layersListing(graph.nodes[i].path)) = 1 /\ \A j \in layersListing(graph.nodes[i].path) : layers[j].id = graph.nodes[i].layer
                                       /\ \A j \in 1..Len(layers) : Range(layers[j].modules) \subseteq nodeKeys /\ Len(layers[j].modules) = Cardinality(Range(layers[j].modules))

\* three modules in two layers, one of them listing two modules
C6_Witness == Analyzed /\ Len(graph.nodes) = 3 /\ Len(layers) = 2 /\ \E j \in 1..Len(layers) : Len(layers[j].modules) = 2

\* C7: layer ids are pairwise distinct and the layers list is strictly
\* ascending by level, also when a user grouping label and a built-in rule
\* give the same id.
C7_LayerIdsUniqueLevelsAscending == Analyzed => /\ \A i, j \in 1..Len(layers) : layers[i].id = layers[j].id => i = j
                                                /\ \A i, j \in 1..Len(layers) : i < j => layers[i].level < layers[j].level

\* the user label "API" and the built-in controllers rule both give the id
\* api, next to a second layer that has more inbound weight than api
C7_Witness == Analyzed /\ config = ConfigDbAsApi /\ {FileU, FileM} \subseteq nodeKeys /\ Len(layers) = 2 /\ layers[1].id = "api" /\ Len(layers[1].modules) = 2 /\ edgeSet # {}

layerIds == [i \in 1..Len(layers) |-> layers[i].id]

levelOf(id) == layers[CHOOSE i \in 1..Len(layers) : layers[i].id = id].level

\* src/controllers/u.ts -> src/services/s.ts -> src/db/m.ts, default configuration
isS6 == /\ scannedPaths(parsedFiles) = {FileU, FileS, FileM}
        /\ importsOf(FileU) = <<ImpS>>
        /\ importsOf(FileS) = <<ImpM>>
        /\ importsOf(FileM) = <<>>
        /\ config = DEFAULT_CONFIG

\* C8: for the project u -> s -> m the layers are exactly api, services and
\* database, level(database) > level(services) > level(api), and no edge is
\* a layer violation, in whatever order the three files were scanned.
C8_ChainLayersOrdered == (Analyzed /\ isS6) => /\ {layerIds[i] : i \in 1..Len(layerIds)} = {"api", "services", "database"} /\ Len(layerIds) = 3
                                               /\ levelOf("database") > levelOf("services") /\ levelOf("services") > levelOf("api")
                                               /\ countLayerViolations(analysis) = 0
                                               /\ pc = "reported" => report.metrics.layerViolations = 0

\* the chain scanned bottom-up (m, then s, then u) and reported
C8_Witness == pc = "reported" /\ isS6 /\ parsedFiles[1].relativePath = FileM /\ parsedFiles[2].relativePath = FileS

\* src/db/m.ts imports src/controllers/u.ts, default configuration
isS7 == /\ scannedPaths(parsedFiles) = {FileU, FileM}
        /\ importsOf(FileM) = <<ImpU>>
        /\ importsOf(FileU) = <<>>
        /\ config = DEFAULT_CONFIG

\* C9: for the project in which the database module m imports the api module
\* u, the layer-violation count is at least 1.
C9_UpwardImportIsViolation == (Analyzed /\ isS7) => countLayerViolations(analysis) >= 1

\* C10: with no file scanned, analyze returns the empty result (0 files, no
\* nodes, no edges, no layers) and the health report of that result has
\* status healthy and score 100.
C10_EmptyRepoScores100 == /\ (Analyzed /\ parsedFiles = <<>>) => (analysis.filesAnalyzed = 0 /\ graph.nodes = <<>> /\ graph.edges = <<>> /\ layers = <<>>)
                          /\ (pc = "reported" /\ parsedFiles = <<>>) => (report.status = "healthy" /\ report.metrics.score = 100)

\* the code-point order of the path strings of the scanned project:
\* "src/controllers/u.ts" < "src/db/m.ts" < "src/services/s.ts"
pathRank(p) == CASE p = FileU -> 1 [] p = FileM -> 2 [] p = FileS -> 3

edgeBefore(e1, e2) == pathRank(e1.from) < pathRank(e2.from) \/ (e1.from = e2.from /\ pathRank(e1.to) < pathRank(e2.to))

\* C11: in the analysis result the nodes iterate in ascending path order and
\* the edges in ascending (source path, target path) order, whatever the
\* order of the scanned files and of their imports.
C11_NodesAndEdgesSorted == Analyzed => /\ \A i, j \in 1..Len(graph.nodes) : i < j => pathRank(graph.nodes[i].path) < pathRank(graph.nodes[j].path)
                                       /\ \A i, j \in 1..Len(graph.edges) : i < j => edgeBefore(graph.edges[i], graph.edges[j])

layoutModuleNodes(layerId) == {i \in 1..Len(layout.nodes) : ~layout.nodes[i].isGroup /\ layout.nodes[i].layer = layerId}

gridBefore(n1, n2) == n1.row < n2.row \/ (n1.row = n2.row /\ n1.col < n2.col)

\* C12: within each layer the modules are placed row-major in descending
\* order of inDegree + outDegree, and modules with the same inDegree +
\* outDegree in ascending path order, whatever the order of layer.modules.
C12_LayerModulesByCentralityThenPath == pc = "drawn" => \A l \in 1..Len(layers) : \A i, j \in layoutModuleNodes(layers[l].id) : gridBefore(layout.nodes[i], layout.nodes[j]) => LET si == moduleScore(graph, layout.nodes[i].path) sj == moduleScore(graph, layout.nodes[j].path) IN si > sj \/ (si = sj /\ pathRank(layout.nodes[i].path) < pathRank(layout.nodes[j].path))

degreeTotals == {graph.nodes[i].inDegree + graph.nodes[i].outDegree : i \in 1..Len(graph.nodes)} \cup {1}

largestTotal == CHOOSE m \in degreeTotals : \A d \in degreeTotals : d <= m

\* C13: every node's coupling is (inDegree + outDegree) / M with M the
\* largest inDegree + outDegree of the graph, at least 1; so every coupling
\* is in [0, 1], all are 0 when there is no edge, and with an edge some node
\* has coupling exactly 1.
C13_CouplingIsShareOfLargest == Analyzed => /\ \A i \in 1..Len(graph.nodes) : LET c == graph.nodes[i].coupling IN c.num = graph.nodes[i].inDegree + graph.nodes[i].outDegree /\ c.den = largestTotal /\ 0 <= c.num /\ c.num <= c.den
                                            /\ graph.edges = <<>> => \A i \in 1..Len(graph.nodes) : graph.nodes[i].coupling.num = 0
                                            /\ graph.edges # <<>> => \E i \in 1..Len(graph.nodes) : graph.nodes[i].coupling.num = graph.nodes[i].coupling.den

\* a graph with edges in which some node has a coupling strictly between 0 and 1
C13_Witness == Analyzed /\ graph.edges # <<>> /\ largestTotal = 3 /\ \E i \in 1..Len(graph.nodes) : graph.nodes[i].coupling.num = 1

\* the non-external import records that no probe of the lookup table matches
unresolvedImports == LET tab == resolutionTable IN {x \in (1..Len(parsedFiles)) \X (1..MaxImports + 1) : x[2] <= Len(parsedFiles[x[1]].imports) /\ ~parsedFiles[x[1]].imports[x[2]].isExternal /\ tab[parsedFiles[x[1]].relativePath][x[2]] = NoPath}

\* the graph as buildDependencyGraph returns it, before the layers are set
unlayered(g) == [g EXCEPT !.nodes = [i \in 1..Len(g.nodes) |-> [g.nodes[i] EXCEPT !.layer = ""]]]

\* C14: a non-external import that no probe matches adds no edge and no
\* node: nodes, edges, weights, degrees, external set and cycles are those of
\* the build without that import record.
C14_UnresolvedImportLeavesNoTrace == Analyzed => \A x \in unresolvedImports : unlayered(graph) = buildDependencyGraph([parsedFiles EXCEPT ![x[1]].imports = removeAt(@, x[2])])

\* an import of a file that was not scanned, next to an import that resolves
C14_Witness == Analyzed /\ unresolvedImports # {} /\ graph.edges # <<>> /\ Len(parsedFiles) = 2

brokenFiles == {i \in 1..Len(parsedFiles) : parsedFiles[i].errors # <<>>}

\* C15: a file whose parse fails is still a ParsedFile and a node, has a
\* non-empty errors list and no import; the analysis covers every file, and
\* nodes, edges and cycles are those of the build in which the broken file
\* parsed cleanly with no import.
C15_BrokenFileStaysANode == Analyzed => /\ analysis.filesAnalyzed = Len(parsedFiles)
                                        /\ \A i \in brokenFiles : /\ parsedFiles[i].relativePath \in nodeKeys
                                                                  /\ unlayered(graph) = buildDependencyGraph([parsedFiles EXCEPT ![i] = createEmptyResult(parsedFiles[i].relativePath)])

\* a broken file that another file imports
C15_Witness == Analyzed /\ \E i \in brokenFiles : \E e \in edgeSet : e.to = parsedFiles[i].relativePath /\ e.from # e.to

\* C16: the score is an integer in [0, 100]; grade A iff score >= 90, B iff
\* 80..89, C iff 70..79, D iff 60..69, F below; status healthy iff score >=
\* 70, warning iff 50..69, critical below; so healthy iff grade A, B or C.
C16_GradeAndStatusFollowScore == LET sc == report.metrics.score IN
                                 /\ sc \in 0..100
                                 /\ report.grade = (CASE sc >= 90 -> "A" [] sc >= 80 /\ sc < 90 -> "B" [] sc >= 70 /\ sc < 80 -> "C" [] sc >= 60 /\ sc < 70 -> "D" [] OTHER -> "F")
                                 /\ report.status = (CASE sc >= 70 -> "healthy" [] sc >= 50 /\ sc < 70 -> "warning" [] OTHER -> "critical")
                                 /\ report.status = "healthy" <=> report.grade \in {"A", "B", "C"}

\* a report with grade F that is not yet critical
C16_Witness == pc = "reported" /\ report.grade = "F" /\ report.status = "warning"

\* C17: the orphan count of the health report is the number of orphan
\* modules of the graph: the nodes with inDegree 0 that are no entry point,
\* the set getOrphanModules returns and the metrics list.
C17_ReportCountsOrphanModules == pc = "reported" => /\ report.metrics.orphans = Cardinality(getOrphanModules(graph))
                                                    /\ report.metrics.orphans = Cardinality(analysis.metrics.orphanModules)

layoutNodesWithId(id) == {i \in 1..Len(layout.nodes) : layout.nodes[i].id = id}

\* C18: in the layout all node ids differ, so sourceId and targetId of every
\* LayoutEdge designate one node each, the module nodes of the graph edge's
\* source and target; and there is exactly one LayoutEdge per graph edge
\* whose two ends are in the layout.
C18_LayoutNodeIdsDesignateOneNode == pc = "drawn" => /\ \A i, j \in 1..Len(layout.nodes) : layout.nodes[i].id = layout.nodes[j].id => i = j
                                                     /\ \A k \in 1..Len(layout.edges) : LET e == layout.edges[k] IN /\ \A i \in layoutNodesWithId(e.sourceId) : layout.nodes[i].path = e.from
                                                                                                                    /\ \A i \in layoutNodesWithId(e.targetId) : layout.nodes[i].path = e.to
                                                                                                                    /\ Cardinality(layoutNodesWithId(e.sourceId)) = 1 /\ Cardinality(layoutNodesWithId(e.targetId)) = 1
                                                     /\ [k \in 1..Len(layout.edges) |-> <<layout.edges[k].from, layout.edges[k].to>>] = [k \in 1..Len(graph.edges) |-> <<graph.edges[k].from, graph.edges[k].to>>]

cycleNodes == {e.from : e \in edgeSet} \cup {e.to : e \in edgeSet}

\* the edges of the graph are those of one simple directed cycle
singleSimpleCycle == /\ edgeSet # {}
                     /\ \A n \in cycleNodes : Cardinality({e \in edgeSet : e.from = n}) = 1 /\ Cardinality({e \in edgeSet : e.to = n}) = 1
                     /\ \A n \in cycleNodes : closure(successors({n})) = cycleNodes

\* C19: when the edges of the graph form one simple directed cycle,
\* circularDependencies holds exactly one cycle: a rotation of it with the
\* first node repeated at the end; circularDependencyCount is 1, whatever
\* node the traversal starts from.
C19_SimpleCycleReportedOnce == (Analyzed /\ singleSimpleCycle) => /\ Len(cycles) = 1
                                                                  /\ analysis.metrics.circularDependencyCount = 1
                                                                  /\ LET c == cycles[1] IN /\ Len(c) = Cardinality(edgeSet) + 1
                                                                                           /\ c[1] = c[Len(c)]
                                                                                           /\ Range(c) = cycleNodes
                                                                                           /\ \A k \in 1..(Len(c) - 1) : hasEdge(c[k], c[k + 1])

\* the cycle u -> s -> m -> u entered at m, the file scanned first
C19_Witness == Analyzed /\ singleSimpleCycle /\ Len(cycles) = 1 /\ cycles[1] = <<FileM, FileU, FileS, FileM>>

\* C20: change events of watched files less than debounceMs apart are
\* coalesced: onFileChange runs once, only after debounceMs without a
\* further event, with the set of all files changed since the previous
\* invocation; files of other events are never passed; the pending set is
\* empty once the invocation has started and holds, while the watcher runs,
\* exactly the files changed since.
C20_DebouncedChangesCoalesce == /\ \A k \in 1..Len(watcher.calls) : LET call == watcher.calls[k] IN call.files # {} /\ call.files = call.changed /\ call.quiet >= DebounceTicks
                                /\ watcher.isRunning => watcher.pendingFiles = watcher.changed
                                /\ watcher.debounceTimer = -1 => watcher.pendingFiles = {}
                                /\ watcher.pendingFiles \subseteq {f \in EventFiles : f # NoPath /\ shouldWatch(f)}

\* two changes coalesced into one invocation, then a later change reported alone
C20_Witness == Len(watcher.calls) = 2 /\ watcher.calls[1].files = {FileA, FileB} /\ watcher.calls[2].files = {FileA} /\ watcher.pendingFiles = {}

\* C21: every import record a parser produces whose source begins with "."
\* or "/" has isRelative true and isExternal false.
C21_DotOrSlashSourceIsRelative == \A k \in 1..Len(emitted) : (startsWith(emitted[k].source, <<".">>) \/ startsWith(emitted[k].source, <<"/">>)) => (emitted[k].isRelative /\ ~emitted[k].isExternal)

\* the grouping rules of cfg with the rules at positions i and j exchanged
swapRules(cfg, i, j) == [cfg EXCEPT !.grouping = [k \in 1..Len(cfg.grouping) |-> IF k = i THEN cfg.grouping[j] ELSE IF k = j THEN cfg.grouping[i] ELSE cfg.grouping[k]]]

userRules == [i \in 1..Len(config.grouping) |-> groupingToLayerRule(config.grouping[i])]

userMatches(p) == {i \in 1..Len(userRules) : ruleMatches(userRules[i], p)}

builtinMatches(p) == {i \in 1..Len(DEFAULT_LAYER_RULES) : ruleMatches(DEFAULT_LAYER_RULES[i], p)}

least(S) == CHOOSE i \in S : \A j \in S : i <= j

\* C22: a module gets the layer of the first rule matching its path, the
\* user grouping rules in configuration order ahead of the built-in rules
\* in their fixed order: a matching user rule overrides every built-in
\* rule, and exchanging the first matching user rule with another matching
\* user rule gives the module the layer of that other rule.
C22_FirstMatchingRuleWins == Analyzed => \A n \in 1..Len(graph.nodes) : LET p == graph.nodes[n].path um == userMatches(p) bm == builtinMatches(p) IN
                                 /\ um # {} => graph.nodes[n].layer = userRules[least(um)].layer
                                 /\ (um = {} /\ bm # {}) => graph.nodes[n].layer = DEFAULT_LAYER_RULES[least(bm)].layer
                                 /\ \A j \in um : j # least(um) => detectLayerForPath(p, allRules(swapRules(config, least(um), j))).name = userRules[j].layer
                                 /\ \E i \in layersListing(p) : layers[i].id = graph.nodes[n].layer

\* src/db/m.ts matches both user rules and the built-in database rule, and
\* src/controllers/u.ts the second user rule and the built-in api rule
C22_Witness == Analyzed /\ config = ConfigTwoRules /\ {FileM, FileU} \subseteq nodeKeys /\ layerOfPath(graph, FileM) = "data" /\ layerOfPath(graph, FileU) = "api" /\ userMatches(FileM) = {1, 2} /\ builtinMatches(FileM) # {} /\ detectLayerForPath(FileM, allRules(ConfigTwoRulesSwapped)).name = "api"

\* the total weight of the edges that enter layer id from a module of another layer
inboundWeight(id) == SumSeq([i \in 1..Len(graph.edges) |-> IF layerOfPath(graph, graph.edges[i].to) = id /\ layerOfPath(graph, graph.edges[i].from) # id THEN graph.edges[i].weight ELSE 0])

\* the position of layer id in the list detectLayers returns
detectedPosition(id) == LET detected == detectLayers(graph, config) IN CHOOSE i \in 1..Len(detected) : detected[i].id = id

\* C24: after inferLayerHierarchy a layer with strictly less inbound
\* cross-layer weight has the smaller level, layers of equal inbound weight
\* keep their order from detectLayers, same-layer edges do not count, and
\* the levels are 0..n-1 in list order.
C24_LevelsFollowInboundWeight == Analyzed => /\ \A i, j \in 1..Len(layers) : inboundWeight(layers[i].id) < inboundWeight(layers[j].id) => layers[i].level < layers[j].level
                                             /\ \A i, j \in 1..Len(layers) : (inboundWeight(layers[i].id) = inboundWeight(layers[j].id) /\ detectedPosition(layers[i].id) < detectedPosition(layers[j].id)) => i < j
                                             /\ \A i \in 1..Len(layers) : layers[i].level = i - 1

layerDependencies == {<<layerOfPath(graph, e.from), layerOfPath(graph, e.to)>> : e \in {x \in edgeSet : layerOfPath(graph, x.from) # layerOfPath(graph, x.to)}}

\* the layers can be ordered so that every cross-layer edge goes from an
\* earlier to a later layer
layerAcyclic == LET ids == {layers[i].id : i \in 1..Len(layers)} IN \E ord \in [ids -> 1..Cardinality(ids)] : \A d \in layerDependencies : ord[d[1]] < ord[d[2]]

\* C30: when the cross-layer dependencies are acyclic at layer granularity,
\* no edge is counted as a layer violation after detectLayers and
\* inferLayerHierarchy: no edge goes from a layer of greater level to a
\* layer of smaller level.
C30_AcyclicLayersHaveNoViolation == (Analyzed /\ layerAcyclic) => /\ countLayerViolations(analysis) = 0
                                                                  /\ \A e \in edgeSet : levelOf(layerOfPath(graph, e.from)) <= levelOf(layerOfPath(graph, e.to))

\* the modules reachable from p along one or more edges
reachable(p) == closure(successors({p}))

\* the strongly connected component of a module that lies on a cycle
component(p) == {q \in nodeKeys : q \in reachable(p) /\ p \in reachable(q)}

\* C25: cycle detection goes on after the first cycle: every strongly
\* connected component that contains a cycle (two or more modules, or a
\* self-import) has a reported cycle made of its modules only, whatever the
\* order of the nodes and edges.
C25_EveryCyclicComponentReported == Analyzed => \A p \in nodeKeys : p \in reachable(p) => \E i \in 1..Len(cycles) : Range(cycles[i]) \subseteq component(p)

\* two components with a cycle: u <-> s and the self-import of m
C25_Witness == Analyzed /\ hasEdge(FileU, FileS) /\ hasEdge(FileS, FileU) /\ hasEdge(FileM, FileM) /\ component(FileU) = {FileU, FileS} /\ component(FileM) = {FileM} /\ Len(cycles) = 2

sumInDegree == SumSeq([i \in 1..Len(graph.nodes) |-> graph.nodes[i].inDegree])

sumOutDegree == SumSeq([i \in 1..Len(graph.nodes) |-> graph.nodes[i].outDegree])

sumWeight == SumSeq([i \in 1..Len(graph.edges) |-> graph.edges[i].weight])

\* C26: the inDegrees, the outDegrees and the edge weights of a built graph
\* have the same sum; so the instability Ce/(Ca+Ce) of the health metrics
\* is 0.5 (50 hundredths) when the graph has an edge and 0 otherwise, and
\* the 3 points for an extreme instability are taken off the score exactly
\* when the graph has no edge.
C26_DegreeSumsEqualInstabilityHalf == /\ Analyzed => (sumInDegree = sumOutDegree /\ sumOutDegree = sumWeight)
                                      /\ pc = "reported" => /\ report.metrics.afferentCoupling = sumWeight /\ report.metrics.efferentCoupling = sumWeight
                                                            /\ report.metrics.instability = (IF graph.edges # <<>> THEN 50 ELSE 0)
                                                            /\ report.metrics.score = calculateOverallScore([report.metrics EXCEPT !.instability = 50], Len(graph.nodes)) - (IF graph.edges # <<>> THEN 0 ELSE 3)

\* a report on a graph with an edge of weight 2, scored without the penalty
C26_Witness == pc = "reported" /\ (\E e \in edgeSet : e.weight = 2) /\ Len(graph.edges) = 2 /\ report.metrics.instability = 50 /\ sumInDegree = 3

\* the parsed files in every order
fileOrders == {[i \in 1..Len(parsedFiles) |-> parsedFiles[perm[i]]] : perm \in Permutations(1..Len(parsedFiles))}

\* the probes in the order of the statement
probeOrder(c) == <<c, removeExtension(c), P(c.segs, c.ext \o <<".ts">>), P(c.segs, c.ext \o <<".tsx">>), P(c.segs, c.ext \o <<".js">>), P(c.segs, c.ext \o <<".jsx">>), P(c.segs, c.ext \o <<".py">>)>> \o (IF c.ext = <<>> THEN <<P(Append(c.segs, "index"), <<>>), P(Append(c.segs, "index"), <<".ts">>), P(Append(c.segs, "index"), <<".js">>)>> ELSE <<>>)

\* C23: a non-external import resolves to the file of the first key hit,
\* probing the exact candidate, the candidate without its extension, the
\* candidate plus .ts, .tsx, .js, .jsx, .py, then candidate/index,
\* candidate/index.ts, candidate/index.js; and with src/b.ts and src/b.js
\* both present './b' from src/a.ts resolves to the same file for every
\* order of the file list.
C23_ProbeOrderAndStableSibling == Analyzed => /\ LET m == buildFilePathMap(parsedFiles, <<>>) IN \A k \in 1..Len(parsedFiles) : \A j \in 1..Len(parsedFiles[k].imports) : LET imp == parsedFiles[k].imports[j] from == parsedFiles[k].relativePath ps == probeOrder(candidatePath(imp.source, from)) hits == {i \in 1..Len(ps) : ps[i] \in DOMAIN m} IN (~imp.isExternal /\ hits # {}) => hasEdge(from, m[ps[CHOOSE i \in hits : \A h \in hits : i <= h]])
                                              /\ {FileA, FileBTs, FileBJs} \subseteq scannedPaths(parsedFiles) => \A files \in fileOrders : resolveImport(ImpB.source, FileA, buildFilePathMap(files, <<>>)) = resolveImport(ImpB.source, FileA, buildFilePathMap(parsedFiles, <<>>))

edgeTriples(g) == {<<g.edges[i].from, g.edges[i].to, g.edges[i].weight>> : i \in 1..Len(g.edges)}

\* C29: the (source, target, weight) triples of the edges do not depend on
\* the order of the parsed files, also when files share a path once the
\* extension is stripped or an index file shares a key with another file.
C29_EdgesIndependentOfFileOrder == Analyzed => \A files \in fileOrders : edgeTriples(buildDependencyGraph(files)) = edgeTriples(graph)

\* C27: at most one onFileChange invocation is in progress at any time: a
\* debounce timer that fires while an earlier call is still awaited starts
\* no second, overlapping call.
C27_OneRegenerationAtATime == watcher.inProgress <= 1

\* the state part of C28: what start() and stop() do to the watcher, and
\* what every invocation so far has delivered
startStopIdempotent == /\ watcher.isRunning => \A ok \in BOOLEAN : start(watcher, ok) = watcher
                       /\ ~watcher.isRunning => stop(watcher) = watcher
                       /\ ~stop(watcher).isRunning /\ stop(watcher).debounceTimer = -1 /\ stop(watcher).pendingFiles = {}
                       /\ ~watcher.isRunning => (watcher.debounceTimer = -1 /\ watcher.pendingFiles = {})
                       /\ \A k \in 1..Len(watcher.calls) : watcher.calls[k].files # {} /\ watcher.calls[k].files = watcher.calls[k].changed

\* C28: start() while running and stop() while not running change nothing;
\* after stop() the watcher is not running, no debounce timer is pending
\* and the pending set is empty; no onFileChange invocation begins between
\* a stop() and the next successful start(), so every invocation delivers
\* exactly the files changed since the later of the previous invocation and
\* the last stop.
C28_StartStopIdempotentNothingAfterStop == [](startStopIdempotent) /\ [][Len(watcher'.calls) > Len(watcher.calls) => watcher.isRunning]_vars

\* a.ts was pending at a stop(); after the restart only b.tsx is delivered
C28_Witness == watcher.isRunning /\ watcher.dropped = {FileA} /\ Len(watcher.calls) = 1 /\ watcher.calls[1].files = {FileB} /\ watcher.pendingFiles = {}

====
